---- MODULE Spec2Model ----
(***************************************************************************)
(* Model of pdf_to_json_extractor.py: the heading classifier, the text     *)
(* normaliser, the section assembler (organize_sections) and the page loop *)
(* of build_json with its three extraction collaborators.                  *)
(*                                                                         *)
(* A Python str is a sequence of one-character strings.  An optional       *)
(* value (str or None) is a sequence of length 0 (None) or 1 (the value).  *)
(* Python objects that are shared by reference (the section and            *)
(* sub-section dicts) live in heaps indexed by allocation order; a         *)
(* reference is an index, and 0 is None.                                   *)
(***************************************************************************)
EXTENDS Integers, Sequences, FiniteSets, TLC

(***************************************************************************)
(* State                                                                   *)
(***************************************************************************)
VARIABLES
  pc,               \* position: "loop"/"done" in organize_sections;
                    \* "text"/"tables"/"images"/"append"/"done" in build_json
  blocks,           \* organize_sections: the argument
  idx,              \* organize_sections: position of the for loop in blocks
  sections,         \* organize_sections: the list being built
  secObjs,          \* heap of section dicts
  subObjs,          \* heap of sub-section dicts
  current_section,  \* organize_sections: local
  current_sub,      \* organize_sections: local
  err,              \* organize_sections: an exception was raised
  HAS_CAMELOT,      \* module flags, lines 14-31
  HAS_FITZ,
  HAS_OCR,
  num_pages,        \* len(pdf.pages)
  i,                \* build_json: the page number of the loop of line 189
  page_content,     \* build_json: local
  result,           \* build_json: result['pages']
  calls,            \* per page, what each collaborator was given and returned
  arg,              \* is_heading, clean_text: the argument of the call
  ret               \* is_heading, clean_text: the value returned

orgVars == <<blocks, idx, sections, secObjs, subObjs, current_section, current_sub, err>>

buildVars == <<HAS_CAMELOT, HAS_FITZ, HAS_OCR, num_pages, i, page_content, result, calls>>

fnVars == <<arg, ret>>

vars == <<pc, blocks, idx, sections, secObjs, subObjs, current_section, current_sub, err,
          HAS_CAMELOT, HAS_FITZ, HAS_OCR, num_pages, i, page_content, result, calls,
          arg, ret>>

(***************************************************************************)
(* Characters and str methods                                              *)
(***************************************************************************)
UPPER == <<"A","B","C","D","E","F","G","H","I","J","K","L","M",
           "N","O","P","Q","R","S","T","U","V","W","X","Y","Z">>

LOWER == <<"a","b","c","d","e","f","g","h","i","j","k","l","m",
           "n","o","p","q","r","s","t","u","v","w","x","y","z">>

DIGITS == {"0","1","2","3","4","5","6","7","8","9"}

\* the characters matched by \s, removed by str.strip() and split on by str.split()
WHITESPACE == {" ", "\t", "\n"}

isupper(c) == \E k \in 1..Len(UPPER) : UPPER[k] = c

isspace(c) == c \in WHITESPACE

\* str.lower() of one character (the effect of re.I on a literal pattern)
lower(c) ==
  IF isupper(c) THEN LOWER[CHOOSE k \in 1..Len(UPPER) : UPPER[k] = c] ELSE c

RECURSIVE lstrip(_)
lstrip(s) ==
  IF s = <<>> THEN <<>>
  ELSE IF isspace(Head(s)) THEN lstrip(Tail(s)) ELSE s

RECURSIVE rstrip(_)
rstrip(s) ==
  IF s = <<>> THEN <<>>
  ELSE IF isspace(s[Len(s)]) THEN rstrip(SubSeq(s, 1, Len(s) - 1)) ELSE s

\* str.strip()
strip(s) == rstrip(lstrip(s))

\* a mutant of rstrip_colon: removes one trailing colon only
rstrip_one_colon(s) ==
  IF s # <<>> /\ s[Len(s)] = ":" THEN SubSeq(s, 1, Len(s) - 1) ELSE s

\* str.rstrip(':')
RECURSIVE rstrip_colon(_)
rstrip_colon(s) ==
  IF s = <<>> THEN <<>>
  ELSE IF s[Len(s)] = ":" THEN rstrip_colon(SubSeq(s, 1, Len(s) - 1)) ELSE s

\* str.split(sep): the pieces between the occurrences of the character sep
RECURSIVE split_on(_, _)
split_on(s, sep) ==
  IF \A k \in 1..Len(s) : s[k] # sep THEN <<s>>
  ELSE LET p == CHOOSE k \in 1..Len(s) :
                  s[k] = sep /\ \A j \in 1..(k - 1) : s[j] # sep
       IN  <<SubSeq(s, 1, p - 1)>> \o split_on(SubSeq(s, p + 1, Len(s)), sep)

\* sep.join(parts)
RECURSIVE join(_, _)
join(parts, sep) ==
  IF parts = <<>> THEN <<>>
  ELSE IF Len(parts) = 1 THEN parts[1]
  ELSE parts[1] \o <<sep>> \o join(Tail(parts), sep)

\* str.split(): the maximal runs of non-whitespace characters
RECURSIVE split(_)
split(s) ==
  LET t == lstrip(s) IN
  IF t = <<>> THEN <<>>
  ELSE LET n == IF \E k \in 1..Len(t) : isspace(t[k])
                THEN (CHOOSE k \in 1..Len(t) :
                        isspace(t[k]) /\ \A j \in 1..(k - 1) : ~isspace(t[j])) - 1
                ELSE Len(t)
       IN  <<SubSeq(t, 1, n)>> \o split(SubSeq(t, n + 1, Len(t)))

\* re.sub(r"\s+", " ", s): every maximal run of whitespace becomes one space
RECURSIVE sub_ws(_)
sub_ws(s) ==
  IF s = <<>> THEN <<>>
  ELSE IF isspace(Head(s)) THEN <<" ">> \o sub_ws(lstrip(s))
  ELSE <<Head(s)>> \o sub_ws(Tail(s))

\* sum(c.isupper() for c in txt)
RECURSIVE count_upper(_)
count_upper(s) ==
  IF s = <<>> THEN 0
  ELSE (IF isupper(Head(s)) THEN 1 ELSE 0) + count_upper(Tail(s))

\* txt.endswith(':')
endswith_colon(s) == s # <<>> /\ s[Len(s)] = ":"

(***************************************************************************)
(* is_heading and clean_text                                               *)
(***************************************************************************)
ShoutMaxLen == 60

LabelMaxWords == 6

KEYWORDS == {
  <<"i","n","t","r","o","d","u","c","t","i","o","n">>,
  <<"s","u","m","m","a","r","y">>,
  <<"c","o","n","c","l","u","s","i","o","n">>,
  <<"b","a","c","k","g","r","o","u","n","d">>,
  <<"m","e","t","h","o","d","o","l","o","g","y">>,
  <<"r","e","s","u","l","t","s">>,
  <<"d","i","s","c","u","s","s","i","o","n">>,
  <<"r","e","f","e","r","e","n","c","e","s">> }

\* re.match(r'^(kw1|kw2|...)[:\s]?', txt, re.I): the optional trailing class
\* always matches, so the match succeeds exactly when txt starts with a keyword
keyword_match(txt) ==
  \E kw \in KEYWORDS :
    /\ Len(txt) >= Len(kw)
    /\ \A k \in 1..Len(kw) : lower(txt[k]) = kw[k]

\* a mutant of shout_rule: half of the characters is enough
shout_rule_half(txt) == Len(txt) <= ShoutMaxLen /\ 2 * count_upper(txt) >= Len(txt)

shout_rule(txt) == Len(txt) <= ShoutMaxLen /\ 2 * count_upper(txt) > Len(txt)

label_rule(txt) ==
  /\ 1 <= Len(split(txt))
  /\ Len(split(txt)) <= LabelMaxWords
  /\ isupper(txt[1])
  /\ endswith_colon(txt)

is_heading(text) ==
  IF text = <<>> THEN FALSE
  ELSE LET txt == strip(text) IN
       shout_rule(txt) \/ label_rule(txt) \/ keyword_match(txt)

\* a mutant of clean_text: the result is not stripped
clean_text_unstripped(s) == sub_ws(s)

clean_text(s) == strip(sub_ws(s))

(***************************************************************************)
(* organize_sections                                                       *)
(*                                                                         *)
(* The state of one call is a record:                                      *)
(*   sections         the list returned: references to section dicts       *)
(*   secObjs          heap of section dicts {"section", "sub_sections"};   *)
(*                    sub_sections is a list of references to sub dicts    *)
(*   subObjs          heap of sub-section dicts {"sub_section",            *)
(*                    "paragraphs"}; sub_section is None or a str          *)
(*   current_section  reference to a section dict, or 0 (None)             *)
(*   current_sub      reference to a sub-section dict, or 0 (None)         *)
(*   err              TRUE once a statement has raised (subscript of None) *)
(***************************************************************************)
SectionWordLimit == 3

None == <<>>

Some(v) == <<v>>

GENERAL == <<"G","e","n","e","r","a","l">>

\* the locals of the call in progress, or of the last call made
Cur ==
  [sections |-> sections, secObjs |-> secObjs, subObjs |-> subObjs,
   current_section |-> current_section, current_sub |-> current_sub, err |-> err]

\* a mutant of OrgInit: the call starts from what the last call left
OrgInitStale == Cur

\* lines 67-70
OrgInit ==
  [sections |-> <<>>, secObjs |-> <<>>, subObjs |-> <<>>,
   current_section |-> 0, current_sub |-> 0, err |-> FALSE]

\* a mutant of AppendSub: the append is executed twice
AppendSubTwice(objs, sec, sub) ==
  [objs EXCEPT ![sec].sub_sections = Append(Append(@, sub), sub)]

\* obj["sub_sections"].append(sub) on the section dict referenced by sec
AppendSub(objs, sec, sub) ==
  [objs EXCEPT ![sec].sub_sections = Append(@, sub)]

\* a mutant of promotes: only the word count is tested
promotes_by_words(st, first_line) == Len(split(first_line)) <= SectionWordLimit

\* a mutant of promotes: the word count is compared with < instead of <=
promotes_strict(st, first_line) ==
  st.current_section = 0 \/ Len(split(first_line)) < SectionWordLimit

\* the test of line 80
promotes(st, first_line) ==
  st.current_section = 0 \/ Len(split(first_line)) <= SectionWordLimit

\* a mutant of NewSection: the current sub-section is not cleared
NewSectionKeepsSub(st, first_line) ==
  LET id == Len(st.secObjs) + 1 IN
  [st EXCEPT
     !.secObjs = Append(@, [section |-> rstrip_colon(first_line),
                            sub_sections |-> <<>>]),
     !.sections = Append(@, id),
     !.current_section = id]

\* lines 82-87
NewSection(st, first_line) ==
  LET id == Len(st.secObjs) + 1 IN
  [st EXCEPT
     !.secObjs = Append(@, [section |-> rstrip_colon(first_line),
                            sub_sections |-> <<>>]),
     !.sections = Append(@, id),
     !.current_section = id,
     !.current_sub = 0]

\* a mutant of NewSubSection: the new sub-section is put in front of the
\* current section's sub-sections instead of at their end
NewSubSectionInFront(st, first_line) ==
  LET sub == Len(st.subObjs) + 1
      subs == Append(st.subObjs, [sub_section |-> Some(rstrip_colon(first_line)),
                                  paragraphs |-> <<>>])
  IN  IF st.current_section = 0
      THEN LET id == Len(st.secObjs) + 1 IN
           [st EXCEPT
              !.subObjs = subs,
              !.current_sub = sub,
              !.secObjs = Append(@, [section |-> GENERAL, sub_sections |-> <<sub>>]),
              !.sections = Append(@, id),
              !.current_section = id]
      ELSE [st EXCEPT
              !.subObjs = subs,
              !.current_sub = sub,
              !.secObjs = [@ EXCEPT ![st.current_section].sub_sections = <<sub>> \o @]]

\* lines 90-99
NewSubSection(st, first_line) ==
  LET sub == Len(st.subObjs) + 1
      subs == Append(st.subObjs, [sub_section |-> Some(rstrip_colon(first_line)),
                                  paragraphs |-> <<>>])
  IN  IF st.current_section = 0
      THEN LET id == Len(st.secObjs) + 1 IN
           [st EXCEPT
              !.subObjs = subs,
              !.current_sub = sub,
              !.secObjs = Append(@, [section |-> GENERAL, sub_sections |-> <<sub>>]),
              !.sections = Append(@, id),
              !.current_section = id]
      ELSE [st EXCEPT
              !.subObjs = subs,
              !.current_sub = sub,
              !.secObjs = AppendSub(@, st.current_section, sub)]

\* a mutant of NewDefaultSub: the anonymous sub-section is created with its
\* paragraph but never appended to the current section
NewDefaultSubUnlinked(st, par) ==
  IF st.current_section = 0
  THEN [st EXCEPT !.err = TRUE]
  ELSE [st EXCEPT
          !.subObjs = Append(@, [sub_section |-> None, paragraphs |-> <<par>>])]

\* a mutant of NewDefaultSub: the anonymous sub-section becomes current_sub
NewDefaultSubCurrent(st, par) ==
  IF st.current_section = 0
  THEN [st EXCEPT !.err = TRUE]
  ELSE LET sub == Len(st.subObjs) + 1 IN
       [st EXCEPT
          !.subObjs = Append(@, [sub_section |-> None, paragraphs |-> <<par>>]),
          !.secObjs = AppendSub(@, st.current_section, sub),
          !.current_sub = sub]

\* lines 107-108 and 114-115: a fresh anonymous sub-section holding one
\* paragraph, appended to the current section; current_sub is not assigned
NewDefaultSub(st, par) ==
  IF st.current_section = 0
  THEN [st EXCEPT !.err = TRUE]
  ELSE LET sub == Len(st.subObjs) + 1 IN
       [st EXCEPT
          !.subObjs = Append(@, [sub_section |-> None, paragraphs |-> <<par>>]),
          !.secObjs = AppendSub(@, st.current_section, sub)]

\* lines 104 and 112: current_sub["paragraphs"].append(par)
AppendParagraph(st, par) ==
  IF st.current_sub = 0
  THEN [st EXCEPT !.err = TRUE]
  ELSE [st EXCEPT !.subObjs[st.current_sub].paragraphs = Append(@, par)]

\* lines 101-108
AddRest(st, text) ==
  LET rest == strip(join(Tail(split_on(text, "\n")), "\n")) IN
  IF rest = <<>> THEN st
  ELSE IF st.current_sub # 0 THEN AppendParagraph(st, rest)
  ELSE NewDefaultSub(st, rest)

\* a mutant of AddParagraph: the synthesized "General" section is appended to
\* the output but not made the current section
AddParagraphNoCursor(st, text) ==
  IF st.current_sub # 0 THEN AppendParagraph(st, text)
  ELSE IF st.current_section # 0 THEN NewDefaultSub(st, text)
  ELSE LET sub == Len(st.subObjs) + 1
           id == Len(st.secObjs) + 1
       IN  [st EXCEPT
              !.subObjs = Append(@, [sub_section |-> None, paragraphs |-> <<text>>]),
              !.secObjs = Append(@, [section |-> GENERAL, sub_sections |-> <<sub>>]),
              !.sections = Append(@, id)]

\* a mutant of AddParagraph: the case of no section at all is forgotten
AddParagraphNoGeneral(st, text) ==
  IF st.current_sub # 0 THEN AppendParagraph(st, text)
  ELSE NewDefaultSub(st, text)

\* lines 111-123
AddParagraph(st, text) ==
  IF st.current_sub # 0 THEN AppendParagraph(st, text)
  ELSE IF st.current_section # 0 THEN NewDefaultSub(st, text)
  ELSE LET sub == Len(st.subObjs) + 1
           id == Len(st.secObjs) + 1
       IN  [st EXCEPT
              !.subObjs = Append(@, [sub_section |-> None, paragraphs |-> <<text>>]),
              !.secObjs = Append(@, [section |-> GENERAL, sub_sections |-> <<sub>>]),
              !.sections = Append(@, id),
              !.current_section = id]

\* line 76
first_line_of(text) == split_on(text, "\n")[1]

\* lines 78-108
HeadingBranch(st, text) ==
  LET first_line == first_line_of(text)
      st1 == IF promotes(st, first_line)
             THEN NewSection(st, first_line)
             ELSE NewSubSection(st, first_line)
  IN  AddRest(st1, text)

\* a mutant of OrgStep: the test of line 74 is missing
OrgStepNoSkip(st, b) ==
  LET text == clean_text(b) IN
  IF is_heading(first_line_of(text)) THEN HeadingBranch(st, text)
  ELSE AddParagraph(st, text)

\* one iteration of the loop of line 72, lines 73-123
OrgStep(st, b) ==
  LET text == clean_text(b) IN
  IF text = <<>> THEN st
  ELSE IF is_heading(first_line_of(text)) THEN HeadingBranch(st, text)
  ELSE AddParagraph(st, text)

\* the state after the loop has consumed blocks[1..n]
RECURSIVE OrgRun(_, _)
OrgRun(bs, n) ==
  IF n = 0 THEN OrgInit ELSE OrgStep(OrgRun(bs, n - 1), bs[n])

\* the value a list of section references denotes (what json.dump writes)
SubValue(st, sub) == st.subObjs[sub]

SectionValue(st, sec) ==
  [section |-> st.secObjs[sec].section,
   sub_sections |-> [k \in 1..Len(st.secObjs[sec].sub_sections) |->
                       SubValue(st, st.secObjs[sec].sub_sections[k])]]

SectionsValue(st) ==
  [k \in 1..Len(st.sections) |-> SectionValue(st, st.sections[k])]

\* organize_sections(blocks), lines 66-124
organize_sections(bs) == SectionsValue(OrgRun(bs, Len(bs)))

(***************************************************************************)
(* The collaborators: extract_text_blocks, extract_tables, extract_images  *)
(*                                                                         *)
(* What the external engines do on a page is an input: an outcome record   *)
(* says whether the call raised and, if not, what it returned.             *)
(***************************************************************************)
\* a mutant of extend: the items are put in front
extend_front(list, items) == items \o list

\* list.extend(items), lines 194, 197, 198
extend(list, items) == list \o items

\* the end of the leftmost match of \n\s*\n that starts at p: \s* is greedy, so
\* the match ends at the last newline of the whitespace run that follows p
blank_end(s, p) ==
  LET ends == {q \in (p + 1)..Len(s) :
                 s[q] = "\n" /\ \A k \in (p + 1)..(q - 1) : isspace(s[k])}
  IN  IF ends = {} THEN 0 ELSE CHOOSE q \in ends : \A r \in ends : r <= q

\* re.split(r'\n\s*\n', text)
RECURSIVE re_split_blank(_)
re_split_blank(s) ==
  LET starts == {p \in 1..Len(s) : s[p] = "\n" /\ blank_end(s, p) # 0} IN
  IF starts = {} THEN <<s>>
  ELSE LET p == CHOOSE x \in starts : \A y \in starts : x <= y
       IN  <<SubSeq(s, 1, p - 1)>> \o re_split_blank(SubSeq(s, blank_end(s, p) + 1, Len(s)))

\* [b for b in raw_blocks if b.strip()]
RECURSIVE non_blank(_)
non_blank(bs) ==
  IF bs = <<>> THEN <<>>
  ELSE IF strip(Head(bs)) # <<>> THEN <<Head(bs)>> \o non_blank(Tail(bs))
  ELSE non_blank(Tail(bs))

\* lines 54-64; t is the outcome of page.extract_text()
extract_text_blocks(t) ==
  IF t.status = "raised" THEN <<>>
  ELSE IF t.text = None \/ t.text = Some(<<>>) THEN <<>>
  ELSE non_blank(re_split_blank(t.text[1]))

\* (cell or "") for every cell of every row of every table, line 136
cell_or_empty(tables) ==
  [t \in 1..Len(tables) |->
     [r \in 1..Len(tables[t]) |->
        [c \in 1..Len(tables[t][r]) |->
           IF tables[t][r][c] = None THEN "" ELSE tables[t][r][c][1]]]]

\* line 139
table_items(tables) ==
  [t \in 1..Len(tables) |->
     [type |-> "table", section |-> None, description |-> None,
      table_data |-> Some(tables[t])]]

\* lines 129-133: the tables after the Camelot attempt
camelot_tables(has_camelot, cam) ==
  IF has_camelot /\ cam.status = "returned" THEN cam.tables ELSE <<>>

\* line 134: pdfplumber is asked only when Camelot gave nothing
plumber_called(has_camelot, cam) == camelot_tables(has_camelot, cam) = <<>>

\* lines 126-139; cam and pl are the outcomes of camelot.read_pdf (with the
\* conversion of its tables) and of page.extract_tables()
extract_tables(has_camelot, cam, pl) ==
  LET t1 == camelot_tables(has_camelot, cam)
      t2 == IF t1 # <<>> THEN t1
            ELSE IF pl.status = "returned" THEN cell_or_empty(pl.tables)
            ELSE <<>>
  IN  table_items(t2)

\* re.search(r'\d', text)
has_digit(text) == \E k \in 1..Len(text) : text[k] \in DIGITS

\* lines 152-159 and 170-177: the item appended for one image whose OCR text is raw
visual_item(raw) ==
  LET text == clean_text(raw) IN
  [type |-> IF has_digit(text) THEN "chart" ELSE "image",
   section |-> None,
   description |-> IF text = <<>> THEN None ELSE Some(text),
   table_data |-> IF has_digit(text) THEN Some(<<>>) ELSE None]

\* a mutant of images_loop: a failure of doc.extract_image discards the results
RECURSIVE images_loop_all_or_nothing(_, _)
images_loop_all_or_nothing(imgs, results) ==
  IF imgs = <<>> THEN results
  ELSE IF Head(imgs).status = "extract_raised" THEN <<>>
  ELSE IF Head(imgs).status = "ocr_raised"
       THEN images_loop_all_or_nothing(Tail(imgs), results)
  ELSE images_loop_all_or_nothing(Tail(imgs), Append(results, visual_item(Head(imgs).text)))

\* the for loops of lines 148-161 and 166-179 over the images of the page:
\* a failure of doc.extract_image (line 149, outside the inner try) ends the
\* loop with the results so far; a failure inside the inner try skips the image
RECURSIVE images_loop(_, _)
images_loop(imgs, results) ==
  IF imgs = <<>> THEN results
  ELSE IF Head(imgs).status = "extract_raised" THEN results
  ELSE IF Head(imgs).status = "ocr_raised" THEN images_loop(Tail(imgs), results)
  ELSE images_loop(Tail(imgs), Append(results, visual_item(Head(imgs).text)))

\* lines 141-182; im is the outcome of opening the page's images and of the
\* processing of each image.  Both branches (PyMuPDF, lines 145-163, and
\* pdfplumber, lines 165-181) run the same loop; only the PyMuPDF branch has a
\* statement that can raise outside the inner try
extract_images(has_fitz, has_ocr, im) ==
  IF ~has_ocr THEN <<>>
  ELSE IF im.status = "raised" THEN <<>>
  ELSE images_loop(im.imgs, <<>>)

(***************************************************************************)
(* Inputs of organize_sections                                             *)
(***************************************************************************)
MaxBlocks == 3

FRAG_EMPTY == <<>>

FRAG_BLANK == <<" ", "\n">>

\* headings by the uppercase rule, with 1, 3 and 4 words
FRAG_NOTE == <<"N","O","T","E">>

FRAG_ABC == <<"A"," ","B"," ","C">>

FRAG_ABCD == <<"A"," ","B"," ","C"," ","D">>

\* headings by the colon rule, with 1 and 4 words, and one ending in two colons
FRAG_KEY == <<"K","e","y",":">>

FRAG_LABEL4 == <<"A"," ","b"," ","c"," ","d",":">>

FRAG_NOTE2 == <<"N","O","T","E",":",":">>

\* headings by the keyword rule, with 1 and 4 words
FRAG_SUMMARY == <<"s","u","m","m","a","r","y">>

FRAG_RESULTS4 == <<"R","e","s","u","l","t","s"," ","a"," ","b"," ","c">>

\* body text
FRAG_PARA == <<"a","b"," ","c">>

FRAG_PARA2 == <<" ","x","\t","\n","y">>

\* fragments of two raw lines whose first raw line is a heading
FRAG_NOTE_BODY == <<"N","O","T","E","\n","a","b">>

FRAG_LABEL4_BODY == <<"A"," ","b"," ","c"," ","d",":","\n","x">>

Fragments == {
  FRAG_EMPTY, FRAG_BLANK, FRAG_NOTE, FRAG_ABC, FRAG_ABCD, FRAG_KEY, FRAG_LABEL4,
  FRAG_NOTE2, FRAG_SUMMARY, FRAG_RESULTS4, FRAG_PARA, FRAG_PARA2,
  FRAG_NOTE_BODY, FRAG_LABEL4_BODY }

BlockLists == UNION {[1..n -> Fragments] : n \in 0..MaxBlocks}

(***************************************************************************)
(* organize_sections as a state machine: one action per loop iteration     *)
(***************************************************************************)
SetCur(st) ==
  /\ sections' = st.sections
  /\ secObjs' = st.secObjs
  /\ subObjs' = st.subObjs
  /\ current_section' = st.current_section
  /\ current_sub' = st.current_sub
  /\ err' = st.err

InLoop == pc = "loop" /\ ~err /\ idx <= Len(blocks)

\* lines 73-75: the normalized fragment is empty
SkipBlock ==
  /\ InLoop
  /\ clean_text(blocks[idx]) = <<>>
  /\ SetCur(OrgStep(Cur, blocks[idx]))
  /\ idx' = idx + 1
  /\ UNCHANGED <<fnVars, pc, blocks, buildVars>>

\* lines 78-108
HeadingBlock ==
  /\ InLoop
  /\ clean_text(blocks[idx]) # <<>>
  /\ is_heading(first_line_of(clean_text(blocks[idx])))
  /\ SetCur(OrgStep(Cur, blocks[idx]))
  /\ idx' = idx + 1
  /\ UNCHANGED <<fnVars, pc, blocks, buildVars>>

\* lines 109-123
ParagraphBlock ==
  /\ InLoop
  /\ clean_text(blocks[idx]) # <<>>
  /\ ~is_heading(first_line_of(clean_text(blocks[idx])))
  /\ SetCur(OrgStep(Cur, blocks[idx]))
  /\ idx' = idx + 1
  /\ UNCHANGED <<fnVars, pc, blocks, buildVars>>

\* line 124
Return ==
  /\ pc = "loop" /\ ~err /\ idx > Len(blocks)
  /\ pc' = "done"
  /\ UNCHANGED <<fnVars, orgVars, buildVars>>

InitOrg ==
  /\ arg = None /\ ret = None
  /\ pc = "loop"
  /\ blocks \in BlockLists
  /\ idx = 1
  /\ sections = <<>> /\ secObjs = <<>> /\ subObjs = <<>>
  /\ current_section = 0 /\ current_sub = 0
  /\ err = FALSE
  /\ HAS_CAMELOT = FALSE /\ HAS_FITZ = FALSE /\ HAS_OCR = FALSE
  /\ num_pages = 0 /\ i = 0
  /\ page_content = <<>> /\ result = <<>> /\ calls = <<>>

NextOrg == SkipBlock \/ HeadingBlock \/ ParagraphBlock \/ Return

SpecOrg == InitOrg /\ [][NextOrg]_vars

(***************************************************************************)
(* Inputs of build_json: what the engines do on a page                     *)
(***************************************************************************)
MaxPages == 2

NotCalled == [status |-> "not_called"]

PAGE_TEXT_A == <<"N","O","T","E","\n","\n","a","b"," ","c">>

PAGE_TEXT_B == <<"x","\n"," ","\n","\t","\n","K","e","y",":","\n","\n"," ">>

TextOutcomes == {
  [status |-> "raised", text |-> None],
  [status |-> "returned", text |-> None],
  [status |-> "returned", text |-> Some(PAGE_TEXT_A)],
  [status |-> "returned", text |-> Some(PAGE_TEXT_B)] }

CamelotOutcomes == {
  [status |-> "raised", tables |-> <<>>],
  [status |-> "returned", tables |-> <<>>],
  [status |-> "returned", tables |-> << <<<<"c">>>> >>] }

PlumberOutcomes == {
  [status |-> "raised", tables |-> <<>>],
  [status |-> "returned", tables |-> << <<<<Some("p"), None>>>>, <<<<Some("q")>>>> >>] }

IMG_CHART == [status |-> "ok", text |-> <<"7">>]

IMG_PHOTO == [status |-> "ok", text |-> <<" ","a","\n">>]

IMG_BLANK == [status |-> "ok", text |-> <<" ">>]

IMG_OCR_RAISES == [status |-> "ocr_raised", text |-> <<>>]

IMG_EXTRACT_RAISES == [status |-> "extract_raised", text |-> <<>>]

ImageOutcomes == {
  [status |-> "raised", imgs |-> <<>>],
  [status |-> "returned", imgs |-> <<>>],
  [status |-> "returned", imgs |-> <<IMG_CHART, IMG_PHOTO>>],
  [status |-> "returned", imgs |-> <<IMG_BLANK>>],
  [status |-> "returned", imgs |-> <<IMG_OCR_RAISES, IMG_PHOTO>>],
  [status |-> "returned", imgs |-> <<IMG_CHART, IMG_EXTRACT_RAISES, IMG_PHOTO>>],
  [status |-> "returned", imgs |-> <<IMG_EXTRACT_RAISES, IMG_CHART>>] }

\* doc.extract_image is called by the PyMuPDF branch only
extract_can_raise(im) ==
  \E k \in 1..Len(im.imgs) : im.imgs[k].status = "extract_raised"

NoCalls ==
  [text |-> NotCalled, camelot |-> NotCalled, plumber |-> NotCalled, images |-> NotCalled,
   sections_ret |-> <<>>, tables_ret |-> <<>>, images_ret |-> <<>>]

(***************************************************************************)
(* build_json as a state machine: the page loop of lines 189-200           *)
(***************************************************************************)
\* line 189: the next page, line 190
NextPage ==
  /\ pc = "page" /\ i < num_pages
  /\ i' = i + 1
  /\ page_content' = <<>>
  /\ pc' = "text"
  /\ UNCHANGED <<fnVars, orgVars, HAS_CAMELOT, HAS_FITZ, HAS_OCR, num_pages, result, calls>>

\* lines 193-194
ExtractText ==
  /\ pc = "text"
  /\ \E t \in TextOutcomes :
       LET st == OrgRun(extract_text_blocks(t), Len(extract_text_blocks(t))) IN
       /\ blocks' = extract_text_blocks(t)
       /\ idx' = Len(extract_text_blocks(t)) + 1
       /\ SetCur(st)
       /\ IF st.err
          THEN /\ pc' = "raised"
               /\ UNCHANGED <<fnVars, page_content, calls>>
          ELSE /\ page_content' = extend(page_content, SectionsValue(st))
               /\ calls' = [NoCalls EXCEPT !.text = t, !.sections_ret = SectionsValue(st)]
               /\ pc' = "tables"
  /\ UNCHANGED <<fnVars, HAS_CAMELOT, HAS_FITZ, HAS_OCR, num_pages, i, result>>

\* line 197
ExtractTables ==
  /\ pc = "tables"
  /\ \E cam \in IF HAS_CAMELOT THEN CamelotOutcomes ELSE {NotCalled} :
       \E pl \in IF plumber_called(HAS_CAMELOT, cam) THEN PlumberOutcomes ELSE {NotCalled} :
         /\ page_content' = extend(page_content, extract_tables(HAS_CAMELOT, cam, pl))
         /\ calls' = [calls EXCEPT !.camelot = cam, !.plumber = pl,
                                   !.tables_ret = extract_tables(HAS_CAMELOT, cam, pl)]
  /\ pc' = "images"
  /\ UNCHANGED <<fnVars, orgVars, HAS_CAMELOT, HAS_FITZ, HAS_OCR, num_pages, i, result>>

\* line 198
ExtractImages ==
  /\ pc = "images"
  /\ \E im \in IF HAS_OCR
               THEN {x \in ImageOutcomes : extract_can_raise(x) => HAS_FITZ}
               ELSE {NotCalled} :
       /\ page_content' = extend(page_content, extract_images(HAS_FITZ, HAS_OCR, im))
       /\ calls' = [calls EXCEPT !.images = im,
                                 !.images_ret = extract_images(HAS_FITZ, HAS_OCR, im)]
  /\ pc' = "append"
  /\ UNCHANGED <<fnVars, orgVars, HAS_CAMELOT, HAS_FITZ, HAS_OCR, num_pages, i, result>>

\* a mutant of AppendPage: a page without content gets no entry
AppendPageSkipsEmpty ==
  /\ pc = "append"
  /\ result' = IF page_content = <<>> THEN result
               ELSE Append(result, [page_number |-> i, content |-> page_content])
  /\ pc' = "page"
  /\ UNCHANGED <<fnVars, orgVars, HAS_CAMELOT, HAS_FITZ, HAS_OCR, num_pages, i, page_content, calls>>

\* line 200
AppendPage ==
  /\ pc = "append"
  /\ result' = Append(result, [page_number |-> i, content |-> page_content])
  /\ pc' = "page"
  /\ UNCHANGED <<fnVars, orgVars, HAS_CAMELOT, HAS_FITZ, HAS_OCR, num_pages, i, page_content, calls>>

\* line 201
Finish ==
  /\ pc = "page" /\ i = num_pages
  /\ pc' = "done"
  /\ UNCHANGED <<fnVars, orgVars, buildVars>>

Init ==
  /\ arg = None /\ ret = None
  /\ pc = "page"
  /\ HAS_CAMELOT \in BOOLEAN /\ HAS_FITZ \in BOOLEAN /\ HAS_OCR \in BOOLEAN
  /\ num_pages \in 0..MaxPages
  /\ i = 0
  /\ page_content = <<>> /\ result = <<>> /\ calls = NoCalls
  /\ blocks = <<>> /\ idx = 1
  /\ sections = <<>> /\ secObjs = <<>> /\ subObjs = <<>>
  /\ current_section = 0 /\ current_sub = 0
  /\ err = FALSE

Next == NextPage \/ ExtractText \/ ExtractTables \/ ExtractImages \/ AppendPage \/ Finish

Spec == Init /\ [][Next]_vars

(***************************************************************************)
(* Inputs of is_heading and clean_text                                     *)
(***************************************************************************)
MaxLineLen == 3

LineChars == {"A", "a", ":", " ", "\t", "\n"}

ShortLines == UNION {[1..n -> LineChars] : n \in 0..MaxLineLen}

Repeat(c, n) == [k \in 1..n |-> c]

\* lines at the length limit and at the half of uppercase letters
LongLines == {
  Repeat("A", ShoutMaxLen),
  Repeat("A", ShoutMaxLen + 1),
  <<" ">> \o Repeat("A", ShoutMaxLen) \o <<"\n">>,
  Repeat("A", 30) \o Repeat("a", 30),
  Repeat("A", 31) \o Repeat("a", 29) }

\* lines of 6 and 7 words ending in a colon, and lines around a keyword
WordLines == {
  <<"A"," ","b"," ","c"," ","d"," ","e"," ","f",":">>,
  <<"A"," ","b"," ","c"," ","d"," ","e"," ","f"," ","g",":">>,
  <<"a"," ","b",":">>,
  <<"\t","A"," ","b",":"," ">>,
  <<"S","u","m","m","a","r","y",":">>,
  <<"r","E","s","U","l","T","s"," ","o","f"," ","a"," ","b"," ","c"," ","d"," ","e">>,
  <<" ","s","u","m","m","a","r","y","x","y","z","x","y","z","x","y","z">>,
  <<"x","s","u","m","m","a","r","y","x","y","z","x","y","z","x","y","z">>,
  <<"a"," ","s","u","m","m","a","r","y"," ","o","f"," ","i","t","x","y","z">>,
  <<"s","u","m","m","a","r","i","e","s"," ","o","f"," ","i","t","x","y","z">>,
  <<" ","a","\t","\n","A"," ">>,
  <<"a"," "," ","b","\n","\n","c">> }

Lines == ShortLines \cup LongLines \cup WordLines \cup KEYWORDS

\* a str argument, or None
Arguments == {None} \cup {Some(s) : s \in Lines}

(***************************************************************************)
(* is_heading and clean_text called on one argument                        *)
(***************************************************************************)
\* lines 35-46; "not text" holds of None and of ""
CallIsHeading ==
  /\ pc = "call"
  /\ ret' = IF arg = None THEN FALSE ELSE is_heading(arg[1])
  /\ pc' = "is_heading"
  /\ UNCHANGED <<arg, orgVars, buildVars>>

\* lines 48-50; s or "" is "" for None
CallCleanText ==
  /\ pc = "call"
  /\ ret' = clean_text(IF arg = None THEN <<>> ELSE arg[1])
  /\ pc' = "clean_text"
  /\ UNCHANGED <<arg, orgVars, buildVars>>

\* lines 48-50, called on what clean_text returned
CallCleanTextAgain ==
  /\ pc = "clean_text"
  /\ ret' = clean_text(ret)
  /\ pc' = "clean_text_again"
  /\ UNCHANGED <<arg, orgVars, buildVars>>

InitFn ==
  /\ pc = "call"
  /\ arg \in Arguments
  /\ ret = None
  /\ blocks = <<>> /\ idx = 1
  /\ sections = <<>> /\ secObjs = <<>> /\ subObjs = <<>>
  /\ current_section = 0 /\ current_sub = 0
  /\ err = FALSE
  /\ HAS_CAMELOT = FALSE /\ HAS_FITZ = FALSE /\ HAS_OCR = FALSE
  /\ num_pages = 0 /\ i = 0
  /\ page_content = <<>> /\ result = <<>> /\ calls = <<>>

NextFn == CallIsHeading \/ CallCleanText \/ CallCleanTextAgain

SpecFn == InitFn /\ [][NextFn]_vars

(***************************************************************************)
(* Properties of organize_sections, checked under SpecOrg                  *)
(***************************************************************************)
\* the fragment of the coming iteration, normalized, and its first line
Text == clean_text(blocks[idx])

FirstLine == first_line_of(Text)

HeadingStep == InLoop /\ Text # <<>> /\ is_heading(FirstLine)

ParagraphStep == InLoop /\ Text # <<>> /\ ~is_heading(FirstLine)

\* the lines of the raw fragment, before normalization
RawLines == split_on(blocks[idx], "\n")

\* the state the heading rules give for a title and a body taken separately
TitleAndBody(st, title, body) ==
  LET st1 == IF promotes(st, title) THEN NewSection(st, title)
             ELSE NewSubSection(st, title)
  IN  IF body = <<>> THEN st1
      ELSE IF st1.current_sub # 0 THEN AppendParagraph(st1, body)
      ELSE NewDefaultSub(st1, body)

\* C1: a fragment of more than one raw line whose first raw line is a heading
\* is classified and named by that first raw line alone (trailing colon
\* stripped), and its remaining lines, normalized, become one paragraph of the
\* current sub-section, or of a new anonymous sub-section of the current
\* section when there is no current sub-section.
C1_FirstRawLineNames ==
  [][(InLoop /\ Len(RawLines) > 1 /\ is_heading(RawLines[1]))
       => Cur' = TitleAndBody(Cur, RawLines[1],
                              clean_text(join(Tail(RawLines), "\n")))]_vars

\* the output has one more section, at its end, and it is the current section
SectionStarted ==
  /\ Len(sections') = Len(sections) + 1
  /\ SubSeq(sections', 1, Len(sections)) = sections
  /\ current_section' = sections'[Len(sections')]
  /\ current_section' # current_section

\* C2: a heading fragment starts a new top-level section, appended at the end
\* of the output and made current, if and only if there is no current section
\* or the heading has 3 or fewer words; otherwise the output and the current
\* section stay as they are.
C2_PromotionRule ==
  [][HeadingStep =>
       /\ SectionStarted <=> (current_section = 0 \/ Len(split(FirstLine)) <= 3)
       /\ ~SectionStarted => (sections' = sections /\ current_section' = current_section)]_vars

C2_Witness ==
  /\ idx = 4
  /\ blocks = <<FRAG_KEY, FRAG_RESULTS4, FRAG_ABC>>
  /\ Len(sections) = 2
  /\ Len(secObjs[sections[1]].sub_sections) = 1

\* C3: a heading of more than 3 words met while a current section exists adds
\* no section: it appends one new named sub-section with an empty paragraph
\* list at the end of the current section's sub-sections and makes it the
\* current sub-section; nothing else changes.
C3_SubSectionAdded ==
  [][(HeadingStep /\ current_section # 0 /\ Len(split(FirstLine)) > 3) =>
       /\ sections' = sections
       /\ current_section' = current_section
       /\ Len(subObjs') = Len(subObjs) + 1
       /\ SubSeq(subObjs', 1, Len(subObjs)) = subObjs
       /\ subObjs'[Len(subObjs')] =
            [sub_section |-> Some(rstrip_colon(FirstLine)), paragraphs |-> <<>>]
       /\ current_sub' = Len(subObjs')
       /\ secObjs' = [secObjs EXCEPT
                        ![current_section].sub_sections = Append(@, Len(subObjs'))]]_vars

C3_Witness ==
  /\ idx = 4
  /\ blocks = <<FRAG_KEY, FRAG_PARA, FRAG_LABEL4>>
  /\ Len(sections) = 1
  /\ Len(secObjs[1].sub_sections) = 2
  /\ current_sub = secObjs[1].sub_sections[2]
  /\ subObjs[current_sub].sub_section = Some(<<"A"," ","b"," ","c"," ","d">>)

\* C4: a non-empty non-heading fragment met while there is no section appends
\* a section named "General" whose sub-sections are exactly one anonymous
\* sub-section holding exactly that paragraph, and makes it the current section.
C4_GeneralSection ==
  [][(ParagraphStep /\ current_section = 0 /\ sections = <<>>) =>
       /\ Len(sections') = 1
       /\ current_section' = sections'[1]
       /\ secObjs'[sections'[1]].section = GENERAL
       /\ Len(secObjs'[sections'[1]].sub_sections) = 1
       /\ subObjs'[secObjs'[sections'[1]].sub_sections[1]] =
            [sub_section |-> None, paragraphs |-> <<Text>>]]_vars

C4_Witness ==
  /\ idx = 2
  /\ blocks[1] = FRAG_PARA2
  /\ Len(sections) = 1
  /\ secObjs[sections[1]].section = GENERAL
  /\ subObjs[secObjs[sections[1]].sub_sections[1]].paragraphs = << <<"x"," ","y">> >>

\* C5: consecutive non-heading fragments met while no named sub-section is
\* current share one anonymous sub-section, so no section has two adjacent
\* anonymous sub-sections.
C5_NoAdjacentAnonymous ==
  \A s \in 1..Len(secObjs) :
    \A k \in 1..(Len(secObjs[s].sub_sections) - 1) :
      ~ /\ subObjs[secObjs[s].sub_sections[k]].sub_section = None
        /\ subObjs[secObjs[s].sub_sections[k + 1]].sub_section = None

\* the fragments whose normalized text is not empty
RECURSIVE NonEmpty(_)
NonEmpty(bs) ==
  IF bs = <<>> THEN <<>>
  ELSE IF clean_text(Head(bs)) # <<>> THEN <<Head(bs)>> \o NonEmpty(Tail(bs))
  ELSE NonEmpty(Tail(bs))

\* C8: a fragment whose normalized text is empty changes neither the output
\* nor the cursors; the result for a fragment list is the result for the list
\* without such fragments, and is empty when no other fragment is left.
C8_EmptyFragmentSkipped ==
  /\ [][(InLoop /\ Text = <<>>) =>
          UNCHANGED <<sections, secObjs, subObjs, current_section, current_sub, err>>]_vars
  /\ [](pc = "done" =>
          /\ Cur = OrgRun(NonEmpty(blocks), Len(NonEmpty(blocks)))
          /\ NonEmpty(blocks) = <<>> => sections = <<>>)

C8_Witness ==
  /\ pc = "done"
  /\ blocks = <<FRAG_BLANK, FRAG_NOTE, FRAG_EMPTY>>
  /\ Len(sections) = 1

\* every reference held by the output and by the cursors is to an allocated dict
RefsValid ==
  /\ \A k \in 1..Len(sections) : sections[k] \in 1..Len(secObjs)
  /\ \A s \in 1..Len(secObjs) : \A k \in 1..Len(secObjs[s].sub_sections) :
       secObjs[s].sub_sections[k] \in 1..Len(subObjs)
  /\ current_section \in 0..Len(secObjs)
  /\ current_sub \in 0..Len(subObjs)

\* C9: organize_sections never raises: no statement attaches a paragraph or a
\* sub-section through an absent cursor, so the loop is never left before the
\* last fragment, and at the end the call returns a list of sections.
C9_NeverFails ==
  /\ ~err
  /\ RefsValid
  /\ pc \in {"loop", "done"}
  /\ idx \in 1..(Len(blocks) + 1)
  /\ pc = "done" => idx = Len(blocks) + 1

C9_Witness ==
  /\ pc = "done"
  /\ blocks = <<FRAG_PARA, FRAG_KEY, FRAG_PARA>>
  /\ Len(sections) = 2
  /\ Len(secObjs[sections[2]].sub_sections) = 1

\* C10: no section name and no sub-section name of the output ends with a colon.
C10_NoTrailingColon ==
  /\ \A s \in 1..Len(secObjs) : ~endswith_colon(secObjs[s].section)
  /\ \A u \in 1..Len(subObjs) :
       subObjs[u].sub_section # None => ~endswith_colon(subObjs[u].sub_section[1])

C10_Witness ==
  /\ idx = 3
  /\ blocks[1] = FRAG_NOTE2
  /\ blocks[2] = FRAG_LABEL4
  /\ secObjs[sections[1]].section = FRAG_NOTE
  /\ subObjs[current_sub].sub_section = Some(<<"A"," ","b"," ","c"," ","d">>)

\* the concatenation of a list of lists
RECURSIVE Concat(_)
Concat(lists) ==
  IF lists = <<>> THEN <<>> ELSE Head(lists) \o Concat(Tail(lists))

\* the sub-section dicts of the output, section by section
TreeSubs ==
  Concat([k \in 1..Len(sections) |->
            [j \in 1..Len(secObjs[sections[k]].sub_sections) |->
               subObjs[secObjs[sections[k]].sub_sections[j]]]])

\* the paragraphs of the output, section by section and sub-section by sub-section
TreeParagraphs == Concat([k \in 1..Len(TreeSubs) |-> TreeSubs[k].paragraphs])

\* the paragraph that lines 100-123 assign for a fragment: its remainder after
\* the first line of the normalized text when that line is a heading, the whole
\* normalized text otherwise; none when that is empty
AssignedParagraph(b) ==
  LET text == clean_text(b)
      rest == strip(join(Tail(split_on(text, "\n")), "\n"))
  IN  IF text = <<>> THEN <<>>
      ELSE IF is_heading(first_line_of(text))
           THEN (IF rest = <<>> THEN <<>> ELSE <<rest>>)
      ELSE <<text>>

\* the paragraphs assigned by the iterations taken so far
AssignedSoFar == Concat([k \in 1..(idx - 1) |-> AssignedParagraph(blocks[k])])

\* C11: every paragraph of the output is inside a sub-section of a section: a
\* section dict holds a name and sub-sections only, every sub-section dict that
\* holds a paragraph is in the sub-section list of a section of the output, and
\* the output tree holds as many paragraphs as were assigned.
C11_ParagraphsInTree ==
  /\ \A s \in 1..Len(secObjs) : DOMAIN secObjs[s] = {"section", "sub_sections"}
  /\ \A u \in 1..Len(subObjs) :
       subObjs[u].paragraphs # <<>> =>
         \E k \in 1..Len(sections) :
           \E j \in 1..Len(secObjs[sections[k]].sub_sections) :
             secObjs[sections[k]].sub_sections[j] = u
  /\ Len(TreeParagraphs) = Len(AssignedSoFar)

C11_Witness ==
  /\ idx = 4
  /\ blocks = <<FRAG_PARA, FRAG_KEY, FRAG_PARA2>>
  /\ Len(sections) = 2
  /\ Len(TreeParagraphs) = 2
  /\ Len(secObjs[sections[2]].sub_sections) = 1

\* the places where a sub-section dict is referenced from a section dict
SubOccurrences(u) ==
  UNION {{<<s, j>> : j \in {k \in 1..Len(secObjs[s].sub_sections) :
                                secObjs[s].sub_sections[k] = u}} :
           s \in 1..Len(secObjs)}

\* the places where a section dict is referenced from the output
SectionOccurrences(s) == {k \in 1..Len(sections) : sections[k] = s}

\* the number of paragraphs held by the sub-section dicts heap[1..n]
RECURSIVE ParagraphCount(_, _)
ParagraphCount(heap, n) ==
  IF n = 0 THEN 0 ELSE Len(heap[n].paragraphs) + ParagraphCount(heap, n - 1)

\* C16: the output is a strict tree: every sub-section dict is referenced by
\* exactly one section dict and exactly once, every section dict is referenced
\* exactly once by the output, and an iteration that assigns a paragraph adds
\* it to exactly one sub-section dict (an iteration that assigns none adds none).
C16_StrictTree ==
  /\ [](/\ \A u \in 1..Len(subObjs) : Cardinality(SubOccurrences(u)) = 1
        /\ \A s \in 1..Len(secObjs) : Cardinality(SectionOccurrences(s)) = 1)
  /\ [][InLoop =>
          ParagraphCount(subObjs', Len(subObjs')) =
            ParagraphCount(subObjs, Len(subObjs)) + Len(AssignedParagraph(blocks[idx]))]_vars

C16_Witness ==
  /\ pc = "done"
  /\ blocks = <<FRAG_KEY, FRAG_ABCD, FRAG_PARA>>
  /\ Len(sections) = 1
  /\ Len(secObjs[sections[1]].sub_sections) = 1
  /\ subObjs[secObjs[sections[1]].sub_sections[1]].paragraphs = <<FRAG_PARA>>

\* the sub-section dicts referenced by a section dict
SubsOf(s) == {secObjs[s].sub_sections[j] : j \in 1..Len(secObjs[s].sub_sections)}

\* C17: a heading promoted to a new section clears the current sub-section; no
\* iteration changes a sub-section of a section other than the one that is
\* current after it; and a non-heading fragment met with a current section and
\* no current sub-section is stored in a new anonymous sub-section at the end
\* of the current section.
C17_NewSectionClearsSub ==
  [][/\ (HeadingStep /\ (current_section = 0 \/ Len(split(FirstLine)) <= 3)) =>
          /\ current_sub' = 0
          /\ secObjs'[current_section'].sub_sections = <<>>
     /\ InLoop =>
          \A s \in 1..Len(secObjs) : s # current_section' =>
            /\ secObjs'[s] = secObjs[s]
            /\ \A u \in SubsOf(s) : subObjs'[u] = subObjs[u]
     /\ (ParagraphStep /\ current_section # 0 /\ current_sub = 0) =>
          /\ current_section' = current_section
          /\ Len(secObjs'[current_section].sub_sections) =
               Len(secObjs[current_section].sub_sections) + 1
          /\ LET subs == secObjs'[current_section].sub_sections IN
               subObjs'[subs[Len(subs)]] = [sub_section |-> None, paragraphs |-> <<Text>>]
    ]_vars

C17_Witness ==
  /\ idx = 4
  /\ blocks = <<FRAG_KEY, FRAG_LABEL4, FRAG_NOTE>>
  /\ Len(sections) = 2
  /\ Len(secObjs[sections[1]].sub_sections) = 1
  /\ current_section = sections[2]
  /\ current_sub = 0

\* the iteration creates a named sub-section dict
NamedSubCreated ==
  /\ Len(subObjs') = Len(subObjs) + 1
  /\ subObjs'[Len(subObjs')].sub_section # None

\* C18: the "General" fallback of the heading branch is never taken: whenever
\* an iteration creates a named sub-section a current section exists already,
\* the sub-section goes to that section, and no section (so no "General"
\* section) is created in the same iteration.
C18_FallbackUnreachable ==
  [][(InLoop /\ NamedSubCreated) =>
       /\ current_section # 0
       /\ current_section' = current_section
       /\ sections' = sections
       /\ Len(secObjs') = Len(secObjs)
       /\ secObjs'[current_section].sub_sections =
            Append(secObjs[current_section].sub_sections, Len(subObjs'))]_vars

C18_Witness ==
  /\ idx = 3
  /\ blocks[1] = FRAG_ABCD
  /\ blocks[2] = FRAG_RESULTS4
  /\ Len(sections) = 1
  /\ secObjs[sections[1]].section = FRAG_ABCD
  /\ subObjs[current_sub].sub_section = Some(FRAG_RESULTS4)

\* C19: the cursor invariant of organize_sections. The output is empty exactly
\* when current_section is absent and otherwise current_section is its last
\* element; a present current_sub implies a present current_section, has a
\* name, and is the last sub-section of the current section.
C19_CursorInvariant ==
  /\ (current_section = 0) <=> (sections = <<>>)
  /\ current_section # 0 => sections[Len(sections)] = current_section
  /\ current_sub # 0 =>
       /\ current_section # 0
       /\ subObjs[current_sub].sub_section # None
       /\ secObjs[current_section].sub_sections # <<>>
       /\ secObjs[current_section].sub_sections[
            Len(secObjs[current_section].sub_sections)] = current_sub

C19_Witness ==
  /\ pc = "done"
  /\ blocks = <<FRAG_KEY, FRAG_LABEL4, FRAG_PARA>>
  /\ current_section = sections[Len(sections)]
  /\ current_sub # 0
  /\ subObjs[current_sub] =
       [sub_section |-> Some(<<"A"," ","b"," ","c"," ","d">>),
        paragraphs |-> <<FRAG_PARA>>]

\* the first raw line of a fragment and the rest of it, both normalized
FragmentTitle(b) == clean_text(Head(split_on(b, "\n")))

FragmentRemainder(b) == clean_text(join(Tail(split_on(b, "\n")), "\n"))

HeadingFragment(b) == clean_text(b) # <<>> /\ is_heading(FragmentTitle(b))

\* the body of a fragment: none, or one paragraph
FragmentBody(b) ==
  IF clean_text(b) = <<>> THEN <<>>
  ELSE IF HeadingFragment(b)
       THEN (IF FragmentRemainder(b) = <<>> THEN <<>>
             ELSE <<FragmentRemainder(b)>>)
  ELSE <<clean_text(b)>>

\* the heading of a fragment: none, or one name
FragmentHeading(b) ==
  IF HeadingFragment(b) THEN <<rstrip_colon(FragmentTitle(b))>> ELSE <<>>

\* the names of the sections and of the named sub-sections of the output, in
\* traversal order
TreeHeadings ==
  Concat([k \in 1..Len(sections) |->
            <<secObjs[sections[k]].section>> \o
            Concat([j \in 1..Len(secObjs[sections[k]].sub_sections) |->
                      subObjs[secObjs[sections[k]].sub_sections[j]].sub_section])])

BodiesSoFar == Concat([k \in 1..(idx - 1) |-> FragmentBody(blocks[k])])

HeadingsSoFar == Concat([k \in 1..(idx - 1) |-> FragmentHeading(blocks[k])])

\* a "General" section was synthesized: the output starts with a section that
\* no heading fragment accounts for
LeadingGeneral ==
  IF Len(TreeHeadings) = Len(HeadingsSoFar) + 1 /\ Head(TreeHeadings) = GENERAL
  THEN <<GENERAL>> ELSE <<>>

\* C20: organize_sections neither drops, duplicates nor reorders body text:
\* the paragraphs of the output, in traversal order, are the bodies of the
\* fragments processed, in input order (the whole normalized fragment of a
\* non-heading fragment, the normalized remainder after the first line of a
\* heading fragment), and the section and named sub-section names, in traversal
\* order, are the headings of the heading fragments in input order, after a
\* possible leading "General".
C20_BodyTextPreserved ==
  /\ TreeParagraphs = BodiesSoFar
  /\ TreeHeadings = LeadingGeneral \o HeadingsSoFar

(***************************************************************************)
(* Properties of build_json and its collaborators, checked under Spec      *)
(***************************************************************************)
\* 1 for a section node, 2 for a table artifact, 3 for a visual artifact
Kind(item) ==
  IF "type" \notin DOMAIN item THEN 1
  ELSE IF item.type = "table" THEN 2 ELSE 3

\* the items of one kind, in the order they have in the content list
RECURSIVE OfKind(_, _)
OfKind(content, k) ==
  IF content = <<>> THEN <<>>
  ELSE IF Kind(Head(content)) = k THEN <<Head(content)>> \o OfKind(Tail(content), k)
  ELSE OfKind(Tail(content), k)

\* calls describes a page whose three collaborators have all been called
PageExtracted == pc = "append" \/ (pc \in {"page", "text", "done"} /\ Len(result) > 0)

\* the content list of that page
PageContent == IF pc = "append" THEN page_content ELSE result[Len(result)].content

\* some call of the collaborator raised while the page was processed
TextFailed == calls.text.status = "raised"

TablesFailed == calls.camelot.status = "raised" \/ calls.plumber.status = "raised"

ImagesFailed ==
  \/ calls.images.status = "raised"
  \/ /\ calls.images.status = "returned"
     /\ \E k \in 1..Len(calls.images.imgs) :
          calls.images.imgs[k].status \in {"extract_raised", "ocr_raised"}

\* every page gets its entry and the loop goes on to the last page
PagesEmitted ==
  /\ pc \in {"page", "text", "tables", "images", "append", "done"}
  /\ i \in 0..num_pages
  /\ pc \in {"text", "tables", "images", "append"} => Len(result) = i - 1
  /\ pc = "page" => Len(result) = i
  /\ pc = "done" => Len(result) = num_pages

\* C6 as stated: a collaborator that fails at any point while the page is
\* processed contributes nothing to the page's content list, and the page
\* entry is still emitted and the later pages processed.
C6_FailureGivesEmpty ==
  /\ PagesEmitted
  /\ PageExtracted =>
       /\ TextFailed => OfKind(PageContent, 1) = <<>>
       /\ TablesFailed => OfKind(PageContent, 2) = <<>>
       /\ ImagesFailed => OfKind(PageContent, 3) = <<>>

\* the images that are reached by the loop: those before the first image for
\* which doc.extract_image raises
Reached(imgs) ==
  {k \in 1..Len(imgs) : \A j \in 1..k : imgs[j].status # "extract_raised"}

\* C6 amended: a failure never aborts the page or the document, and what the
\* failing collaborator contributes is: nothing for the text reader; nothing
\* for the tables when pdfplumber raises, and pdfplumber's tables when only
\* Camelot raised; nothing for the images when the page's images cannot be
\* opened, and otherwise one artifact for every image that was processed
\* without error before the first image whose extraction raised.
C6_FailureAbsorbed ==
  /\ PagesEmitted
  /\ PageExtracted =>
       /\ TextFailed => OfKind(PageContent, 1) = <<>>
       /\ calls.plumber.status = "raised" => OfKind(PageContent, 2) = <<>>
       /\ (calls.camelot.status = "raised" /\ calls.plumber.status = "returned") =>
            /\ Len(OfKind(PageContent, 2)) = Len(calls.plumber.tables)
            /\ \A t \in 1..Len(calls.plumber.tables) :
                 OfKind(PageContent, 2)[t].table_data =
                   Some(cell_or_empty(calls.plumber.tables)[t])
       /\ calls.images.status = "raised" => OfKind(PageContent, 3) = <<>>
       /\ calls.images.status = "returned" =>
            LET imgs == calls.images.imgs
                done == {k \in Reached(imgs) : imgs[k].status = "ok"}
                got == OfKind(PageContent, 3)
            IN  /\ Len(got) = Cardinality(done)
                /\ \A k \in done :
                     got[Cardinality({j \in done : j <= k})] = visual_item(imgs[k].text)

\* page 1 lost its text and its tables, and the extraction of its second image
\* raised after the first image had given a chart; page 2 is being processed
C6_Witness ==
  /\ pc = "text" /\ i = 2
  /\ TextFailed
  /\ calls.camelot.status = "raised" /\ calls.plumber.status = "raised"
  /\ calls.images.status = "returned"
  /\ calls.images.imgs = <<IMG_CHART, IMG_EXTRACT_RAISES, IMG_PHOTO>>
  /\ Len(result) = 1
  /\ Len(result[1].content) = 1
  /\ result[1].content[1].type = "chart"

\* C7: the content list of every page entry is the section nodes, then the
\* table artifacts, then the visual artifacts, each group as its producer
\* returned it: nothing reordered, filtered or duplicated.
C7_ContentOrder ==
  /\ \A p \in 1..Len(result) :
       \A a, b \in 1..Len(result[p].content) :
         a < b => Kind(result[p].content[a]) <= Kind(result[p].content[b])
  /\ PageExtracted =>
       /\ PageContent = calls.sections_ret \o calls.tables_ret \o calls.images_ret
       /\ OfKind(PageContent, 1) = calls.sections_ret
       /\ OfKind(PageContent, 2) = calls.tables_ret
       /\ OfKind(PageContent, 3) = calls.images_ret

C7_Witness ==
  /\ pc = "done"
  /\ Len(result) = 2
  /\ Len(OfKind(result[2].content, 1)) = 2
  /\ Len(OfKind(result[2].content, 2)) = 2
  /\ Len(OfKind(result[2].content, 3)) = 2
  /\ Kind(result[2].content[1]) = 1
  /\ Kind(result[2].content[6]) = 3

\* the number of pages whose iteration of the page loop is complete
PagesProcessed == IF pc \in {"page", "done"} THEN i ELSE i - 1

\* C15: at every point of the page loop result['pages'] holds one entry per
\* page processed so far, the entry at position j has page_number j, and at
\* the end there is an entry for every page of the document, also for a page
\* that yields no content.
C15_OneEntryPerPage ==
  /\ Len(result) = PagesProcessed
  /\ \A j \in 1..Len(result) : result[j].page_number = j
  /\ pc = "done" => DOMAIN result = 1..num_pages

C15_Witness ==
  /\ pc = "done"
  /\ num_pages = 2
  /\ result[1] = [page_number |-> 1, content |-> <<>>]
  /\ result[2].page_number = 2
  /\ result[2].content # <<>>

\* the fragments of the page of the current iteration
PageFragments == extract_text_blocks(calls.text)

\* organize_sections run on a fragment list alone, from no section, no current
\* section and no current sub-section
RECURSIVE AloneRun(_, _)
AloneRun(bs, n) ==
  IF n = 0
  THEN [sections |-> <<>>, secObjs |-> <<>>, subObjs |-> <<>>,
        current_section |-> 0, current_sub |-> 0, err |-> FALSE]
  ELSE OrgStep(AloneRun(bs, n - 1), bs[n])

PageAlone == SectionsValue(AloneRun(PageFragments, Len(PageFragments)))

\* C14: the sections of a page depend on the fragments of that page only: they
\* are what organize_sections gives for these fragments alone, whatever the
\* pages before held, and they are all the page holds when its text is done.
C14_PageIndependent ==
  /\ pc \in {"tables", "images", "append"} => calls.sections_ret = PageAlone
  /\ pc = "tables" => page_content = PageAlone

C14_Witness ==
  /\ pc = "tables"
  /\ i = 2
  /\ result[1].content # <<>>
  /\ result[1].content[1] =
       [section |-> <<"N","O","T","E">>,
        sub_sections |-> <<[sub_section |-> None, paragraphs |-> <<FRAG_PARA>>]>>]
  /\ calls.text.text = Some(PAGE_TEXT_B)
  /\ page_content # <<>>
  /\ page_content[1].section = GENERAL
  /\ page_content[1].sub_sections[1] = [sub_section |-> None, paragraphs |-> << <<"x">> >>]

(***************************************************************************)
(* Properties of is_heading and clean_text, checked under SpecFn           *)
(***************************************************************************)
Blank(c) == c \in {" ", "\t", "\n"}

Capital(c) == \E k \in 1..Len(UPPER) : c = UPPER[k]

\* a line without its leading and trailing whitespace
Trimmed(s) ==
  LET solid == {k \in 1..Len(s) : ~Blank(s[k])} IN
  IF solid = {} THEN <<>>
  ELSE SubSeq(s, CHOOSE k \in solid : \A j \in solid : k <= j,
                 CHOOSE k \in solid : \A j \in solid : j <= k)

\* the number of whitespace-separated words
WordCount(s) ==
  Cardinality({k \in 1..Len(s) : ~Blank(s[k]) /\ (k = 1 \/ Blank(s[k - 1]))})

CapitalCount(s) == Cardinality({k \in 1..Len(s) : Capital(s[k])})

ShoutHolds(s) == Len(s) <= 60 /\ 2 * CapitalCount(s) > Len(s)

LabelHolds(s) ==
  /\ WordCount(s) >= 1 /\ WordCount(s) <= 6
  /\ Capital(s[1])
  /\ s[Len(s)] = ":"

KeywordHolds(s) ==
  \E kw \in KEYWORDS :
    /\ Len(s) >= Len(kw)
    /\ [k \in 1..Len(kw) |-> lower(s[k])] = kw

\* C12: is_heading returns true exactly when the shout rule, the label rule or
\* the keyword rule holds of the trimmed line, there are eight keywords, and
\* it returns false for None, for the empty line and for a line of whitespace.
C12_ThreeRules ==
  pc = "is_heading" =>
    /\ Cardinality(KEYWORDS) = 8
    /\ ret = (/\ arg # None
              /\ \/ ShoutHolds(Trimmed(arg[1]))
                 \/ LabelHolds(Trimmed(arg[1]))
                 \/ KeywordHolds(Trimmed(arg[1])))
    /\ (arg = None \/ Trimmed(arg[1]) = <<>>) => ret = FALSE

C12_Witness ==
  /\ pc = "is_heading"
  /\ arg = Some(<<"\t","A"," ","b",":"," ">>)
  /\ ret = TRUE

\* the string is normalized: no whitespace at its ends, no whitespace but the
\* space, no two spaces in a row
Canonical(s) ==
  /\ s # <<>> => ~Blank(s[1]) /\ ~Blank(s[Len(s)])
  /\ \A k \in 1..Len(s) : Blank(s[k]) => s[k] = " "
  /\ \A k \in 1..(Len(s) - 1) : ~(s[k] = " " /\ s[k + 1] = " ")

Solid(s) == SelectSeq(s, LAMBDA c : ~Blank(c))

\* C13: clean_text is idempotent and canonical: its result is normalized and
\* keeps the non-whitespace characters of the argument, None and the empty
\* string give the empty string, and clean_text of the result is the result.
C13_Idempotent ==
  /\ [](pc \in {"clean_text", "clean_text_again"} =>
          /\ Canonical(ret)
          /\ (arg = None \/ arg = Some(<<>>)) => ret = <<>>
          /\ arg # None => Solid(ret) = Solid(arg[1])
          /\ WordCount(ret) = (IF arg = None THEN 0 ELSE WordCount(arg[1])))
  /\ [][pc = "clean_text" /\ pc' = "clean_text_again" => ret' = ret]_vars

C13_Witness ==
  /\ pc = "clean_text_again"
  /\ arg = Some(<<" ","a","\t","\n","A"," ">>)
  /\ ret = <<"a"," ","A">>

====
